---------------------------- MODULE Spec2Model ----------------------------
(***************************************************************************)
(* A model of src-tauri/src/lib.rs of my-tauri-app: the overlay registry   *)
(* (OverlayManager), the two overlay commands, and the key_event command.  *)
(*                                                                         *)
(* The target OS is fixed at build time by #[cfg(target_os = ...)]; the    *)
(* model carries it as the variable `platform`, chosen in Init and never   *)
(* changed, so that the three builds the source has are all covered:       *)
(* "windows", "macos" and "other" (every cfg block compiled out).          *)
(*                                                                         *)
(* Commands are invoked by the host on threads 1..MaxThreads; a thread     *)
(* runs one command at a time, and the steps of commands on different      *)
(* threads interleave.  OverlayManager is shared through tauri::State, and *)
(* its only synchronisation is the Mutex around the registry vector.       *)
(*                                                                         *)
(* Native calls are modelled by their documented effect:                   *)
(* CreateWindowExW / NSWindow alloc-init either yields a fresh window or   *)
(* refuses; DestroyWindow(hwnd) ends the window when the calling thread    *)
(* created it (creator[h]) and is refused otherwise, the window staying as *)
(* it is; the other calls set an attribute of the window or request a      *)
(* repaint.                                                                *)
(***************************************************************************)
EXTENDS Naturals, Integers, Sequences, FiniteSets, TLC

\* Bounds of the model (not program constants).
MaxThreads == 2
MaxCalls == 3

Threads == 1 .. MaxThreads
Platforms == {"windows", "macos", "other"}

\* The null NSWindow pointer / no handle yet.
NULL == 0

VARIABLES
    platform,        \* target_os of the build
    overlays,        \* OverlayManager.overlays   : Mutex<Vec<SafeHWND>>       (windows)
    ns_windows,      \* OverlayManager.ns_windows : Mutex<Vec<*mut c_void>>    (macos)
    mutex,           \* holder of the registry Mutex: a thread, or 0 when free
    live,            \* native overlay windows that currently exist
    affinity,        \* windows excluded from capture (apply_privacy took effect)
    clickThrough,    \* windows made click-through and re-pinned topmost
    creator,         \* creator[h]: the thread whose call created window h
    nextHandle,      \* the next fresh native handle
    pc,              \* pc[t]: the statement thread t executes next ("idle": none)
    cid,             \* cid[t]: index in `call` of the command thread t runs or ran last
    drain,           \* drain[t]: what is left of destroy_all's drain(..) iterator
    call,            \* one record per command invocation, in invocation order
    lockLog,         \* ids of the calls that took the registry lock, in lock order
    useAfterDestroy  \* handles passed to a native call after their window was destroyed

ovars == <<platform, overlays, ns_windows, mutex, live, affinity, clickThrough,
           creator, nextHandle, pc, cid, drain, call, lockLog, useAfterDestroy>>

\* The registry of the build: the vector the platform's OverlayManager holds.
Registry ==
    IF platform = "windows" THEN overlays
    ELSE IF platform = "macos" THEN ns_windows
    ELSE << >>

Range(s) == {s[i] : i \in 1 .. Len(s)}

\* A fresh call record.  op: the command; ret: "none" while it runs, then what
\* the caller gets ("Ok", or "panic" when the command unwound); hwnd: the local
\* `hwnd` / `ns_window`; refused: the native subsystem refused the window;
\* made: a native window was created by this call; added: handles this call
\* appended to the registry; taken: number of handles its drain took; native:
\* native window calls it made; destroys: native destroy calls it made;
\* denied: those of them the window manager refused;
\* conc: ids of the calls that were in flight at some moment of this call.
NewCall(op, t, inflight) ==
    [op |-> op, thread |-> t, ret |-> "none", hwnd |-> NULL, refused |-> FALSE,
     made |-> FALSE, added |-> << >>, taken |-> 0, native |-> 0, destroys |-> 0,
     denied |-> 0,
     conc |-> inflight]

InFlight == {cid[t] : t \in {u \in Threads : pc[u] # "idle"}}

OverlayInit ==
    /\ platform \in Platforms
    /\ overlays = << >>
    /\ ns_windows = << >>
    /\ mutex = 0
    /\ live = {}
    /\ affinity = {}
    /\ clickThrough = {}
    /\ creator = << >>
    /\ nextHandle = 1
    /\ pc = [t \in Threads |-> "idle"]
    /\ cid = [t \in Threads |-> 0]
    /\ drain = [t \in Threads |-> << >>]
    /\ call = << >>
    /\ lockLog = << >>
    /\ useAfterDestroy = {}


\* The command call thread t is running.
Cur(t) == call[cid[t]]

\* A native call that takes window handle h: it touches a destroyed window
\* when h is not (or no longer) a live window.
NativeUse(h) ==
    IF h \in live THEN useAfterDestroy ELSE useAfterDestroy \cup {h}

\* The host invokes command op on the idle thread t.  The host's threads are
\* interchangeable: one that has run no command yet is taken only when every
\* thread before it has run one, which leaves out only renamings.
Invoke(t, op, first) ==
    /\ pc[t] = "idle"
    /\ \A u \in Threads : u < t => cid[u] # 0
    /\ Len(call) < MaxCalls
    /\ call' = Append([i \in 1 .. Len(call) |->
                          IF i \in InFlight
                          THEN [call[i] EXCEPT !.conc = @ \cup {Len(call) + 1}]
                          ELSE call[i]],
                      NewCall(op, t, InFlight))
    /\ cid' = [cid EXCEPT ![t] = Len(call) + 1]
    /\ pc' = [pc EXCEPT ![t] = first]

(***************************************************************************)
(* create_privacy_overlay, target_os = "windows"                           *)
(***************************************************************************)

\* win_privacy::create_overlay: CreateWindowExW(...).expect(...).  The native
\* subsystem either returns a fresh window, or refuses and expect() panics.
create_overlay(t) ==
    /\ pc[t] = "create_overlay"
    /\ \/ /\ live' = live \cup {nextHandle}
          /\ creator' = Append(creator, t)
          /\ nextHandle' = nextHandle + 1
          /\ call' = [call EXCEPT ![cid[t]].hwnd = nextHandle,
                                  ![cid[t]].made = TRUE,
                                  ![cid[t]].native = @ + 1]
          /\ pc' = [pc EXCEPT ![t] = "apply_privacy"]
       \/ /\ call' = [call EXCEPT ![cid[t]].refused = TRUE,
                                  ![cid[t]].native = @ + 1,
                                  ![cid[t]].ret = "panic"]
          /\ pc' = [pc EXCEPT ![t] = "idle"]
          /\ UNCHANGED <<live, creator, nextHandle>>
    /\ UNCHANGED <<platform, overlays, ns_windows, mutex, affinity, clickThrough,
                   cid, drain, lockLog, useAfterDestroy>>

\* win_privacy::apply_privacy: SetWindowDisplayAffinity(hwnd, WDA_EXCLUDEFROMCAPTURE).
apply_privacy(t) ==
    /\ pc[t] = "apply_privacy"
    /\ affinity' = IF Cur(t).hwnd \in live THEN affinity \cup {Cur(t).hwnd} ELSE affinity
    /\ useAfterDestroy' = NativeUse(Cur(t).hwnd)
    /\ call' = [call EXCEPT ![cid[t]].native = @ + 1]
    /\ pc' = [pc EXCEPT ![t] = "make_click_through"]
    /\ UNCHANGED <<platform, overlays, ns_windows, mutex, live, clickThrough,
                   creator, nextHandle, cid, drain, lockLog>>

\* win_privacy::make_click_through: SetWindowLongPtrW(... WS_EX_TRANSPARENT ...)
\* then SetWindowPos(hwnd, HWND_TOPMOST, ...).
make_click_through(t) ==
    /\ pc[t] = "make_click_through"
    /\ clickThrough' = IF Cur(t).hwnd \in live THEN clickThrough \cup {Cur(t).hwnd}
                       ELSE clickThrough
    /\ useAfterDestroy' = NativeUse(Cur(t).hwnd)
    /\ call' = [call EXCEPT ![cid[t]].native = @ + 1]
    /\ pc' = [pc EXCEPT ![t] = "add_overlay"]
    /\ UNCHANGED <<platform, overlays, ns_windows, mutex, live, affinity,
                   creator, nextHandle, cid, drain, lockLog>>

\* A buggy add_overlay: the new handle replaces the vector's contents.
add_overlay_overwrite(t) ==
    /\ pc[t] = "add_overlay"
    /\ mutex = 0
    /\ overlays' = <<Cur(t).hwnd>>
    /\ lockLog' = Append(lockLog, cid[t])
    /\ call' = [call EXCEPT ![cid[t]].added = Append(@, Cur(t).hwnd)]
    /\ pc' = [pc EXCEPT ![t] = "InvalidateRect"]
    /\ UNCHANGED <<platform, ns_windows, mutex, live, affinity, clickThrough,
                   creator, nextHandle, cid, drain, useAfterDestroy>>

\* OverlayManager::add_overlay: self.overlays.lock().unwrap().push(SafeHWND(hwnd)).
\* Lock, push and unlock are one statement: it waits until the Mutex is free.
add_overlay(t) ==
    /\ pc[t] = "add_overlay"
    /\ mutex = 0
    /\ overlays' = Append(overlays, Cur(t).hwnd)
    /\ lockLog' = Append(lockLog, cid[t])
    /\ call' = [call EXCEPT ![cid[t]].added = Append(@, Cur(t).hwnd)]
    /\ pc' = [pc EXCEPT ![t] = "InvalidateRect"]
    /\ UNCHANGED <<platform, ns_windows, mutex, live, affinity, clickThrough,
                   creator, nextHandle, cid, drain, useAfterDestroy>>

\* create_privacy_overlay's last statement: InvalidateRect(hwnd, None, true),
\* made after the handle is in the registry and without the lock.
InvalidateRect(t) ==
    /\ pc[t] = "InvalidateRect"
    /\ useAfterDestroy' = NativeUse(Cur(t).hwnd)
    /\ call' = [call EXCEPT ![cid[t]].native = @ + 1]
    /\ pc' = [pc EXCEPT ![t] = "create_ret"]
    /\ UNCHANGED <<platform, overlays, ns_windows, mutex, live, affinity,
                   clickThrough, creator, nextHandle, cid, drain, lockLog>>

(***************************************************************************)
(* create_privacy_overlay, target_os = "macos"                             *)
(***************************************************************************)

\* mac_privacy::create_overlay: [[NSWindow alloc] initWithContentRect:...] and
\* the messages that follow; the result is returned as a raw pointer, which
\* is null when the native subsystem refused (messages to nil do nothing).
mac_create_overlay(t) ==
    /\ pc[t] = "mac_create_overlay"
    /\ \/ /\ live' = live \cup {nextHandle}
          /\ creator' = Append(creator, t)
          /\ nextHandle' = nextHandle + 1
          /\ call' = [call EXCEPT ![cid[t]].hwnd = nextHandle,
                                  ![cid[t]].made = TRUE,
                                  ![cid[t]].native = @ + 1]
       \/ /\ call' = [call EXCEPT ![cid[t]].refused = TRUE,
                                  ![cid[t]].hwnd = NULL,
                                  ![cid[t]].native = @ + 1]
          /\ UNCHANGED <<live, creator, nextHandle>>
    /\ pc' = [pc EXCEPT ![t] = "mac_apply_privacy"]
    /\ UNCHANGED <<platform, overlays, ns_windows, mutex, affinity, clickThrough,
                   cid, drain, lockLog, useAfterDestroy>>

\* mac_privacy::apply_privacy: returns at once on a null pointer, else
\* setSharingType: NSWindowSharingNone.
mac_apply_privacy(t) ==
    /\ pc[t] = "mac_apply_privacy"
    /\ IF Cur(t).hwnd = NULL
       THEN UNCHANGED <<affinity, useAfterDestroy, call>>
       ELSE /\ affinity' = IF Cur(t).hwnd \in live THEN affinity \cup {Cur(t).hwnd}
                           ELSE affinity
            /\ useAfterDestroy' = NativeUse(Cur(t).hwnd)
            /\ call' = [call EXCEPT ![cid[t]].native = @ + 1]
    /\ pc' = [pc EXCEPT ![t] = "mac_make_click_through"]
    /\ UNCHANGED <<platform, overlays, ns_windows, mutex, live, clickThrough,
                   creator, nextHandle, cid, drain, lockLog>>

\* mac_privacy::make_click_through: returns at once on a null pointer, else
\* setIgnoresMouseEvents: true and setAlphaValue: 1.0.
mac_make_click_through(t) ==
    /\ pc[t] = "mac_make_click_through"
    /\ IF Cur(t).hwnd = NULL
       THEN UNCHANGED <<clickThrough, useAfterDestroy, call>>
       ELSE /\ clickThrough' = IF Cur(t).hwnd \in live
                               THEN clickThrough \cup {Cur(t).hwnd}
                               ELSE clickThrough
            /\ useAfterDestroy' = NativeUse(Cur(t).hwnd)
            /\ call' = [call EXCEPT ![cid[t]].native = @ + 1]
    /\ pc' = [pc EXCEPT ![t] = "add_ns_window"]
    /\ UNCHANGED <<platform, overlays, ns_windows, mutex, live, affinity,
                   creator, nextHandle, cid, drain, lockLog>>

\* OverlayManager::add_ns_window: self.ns_windows.lock().unwrap().push(ns_window),
\* whatever the pointer is.
add_ns_window(t) ==
    /\ pc[t] = "add_ns_window"
    /\ mutex = 0
    /\ ns_windows' = Append(ns_windows, Cur(t).hwnd)
    /\ lockLog' = Append(lockLog, cid[t])
    /\ call' = [call EXCEPT ![cid[t]].added = Append(@, Cur(t).hwnd)]
    /\ pc' = [pc EXCEPT ![t] = "create_ret"]
    /\ UNCHANGED <<platform, overlays, mutex, live, affinity, clickThrough,
                   creator, nextHandle, cid, drain, useAfterDestroy>>

\* create_privacy_overlay's tail on every build: Ok(()).
create_ret(t) ==
    /\ pc[t] = "create_ret"
    /\ call' = [call EXCEPT ![cid[t]].ret = "Ok"]
    /\ pc' = [pc EXCEPT ![t] = "idle"]
    /\ UNCHANGED <<platform, overlays, ns_windows, mutex, live, affinity,
                   clickThrough, creator, nextHandle, cid, drain, lockLog,
                   useAfterDestroy>>

\* The command create_privacy_overlay: its invocation and its steps.  With
\* neither cfg block compiled in, the body is Ok(()) alone.
create_privacy_overlay(t) ==
    \/ /\ Invoke(t, "create",
                 IF platform = "windows" THEN "create_overlay"
                 ELSE IF platform = "macos" THEN "mac_create_overlay"
                 ELSE "create_ret")
       /\ UNCHANGED <<platform, overlays, ns_windows, mutex, live, affinity,
                      clickThrough, creator, nextHandle, drain, lockLog,
                      useAfterDestroy>>
    \/ create_overlay(t)
    \/ apply_privacy(t)
    \/ make_click_through(t)
    \/ add_overlay(t)
    \/ InvalidateRect(t)
    \/ mac_create_overlay(t)
    \/ mac_apply_privacy(t)
    \/ mac_make_click_through(t)
    \/ add_ns_window(t)
    \/ create_ret(t)

(***************************************************************************)
(* destroy_privacy_overlay                                                 *)
(***************************************************************************)

\* A buggy destroy_all: it iterates over the vector (iter()) and leaves the
\* handles in it.
destroy_all_lock_keep(t) ==
    /\ pc[t] = "destroy_all"
    /\ mutex = 0
    /\ mutex' = t
    /\ drain' = [drain EXCEPT ![t] = overlays]
    /\ lockLog' = Append(lockLog, cid[t])
    /\ call' = [call EXCEPT ![cid[t]].taken = Len(overlays)]
    /\ pc' = [pc EXCEPT ![t] = "DestroyWindow"]
    /\ UNCHANGED <<platform, overlays, ns_windows, live, affinity, clickThrough,
                   creator, nextHandle, cid, useAfterDestroy>>

\* OverlayManager::destroy_all (windows), entry of
\*   for SafeHWND(hwnd) in self.overlays.lock().unwrap().drain(..) { ... }
\* The guard is a temporary of the iterator expression, so the Mutex stays
\* locked until the loop is over; drain(..) empties the vector at once and
\* hands its elements out one by one.
destroy_all_lock(t) ==
    /\ pc[t] = "destroy_all"
    /\ mutex = 0
    /\ mutex' = t
    /\ drain' = [drain EXCEPT ![t] = overlays]
    /\ overlays' = << >>
    /\ lockLog' = Append(lockLog, cid[t])
    /\ call' = [call EXCEPT ![cid[t]].taken = Len(overlays)]
    /\ pc' = [pc EXCEPT ![t] = "DestroyWindow"]
    /\ UNCHANGED <<platform, ns_windows, live, affinity, clickThrough, creator,
                   nextHandle, cid, useAfterDestroy>>

\* A DestroyWindow that ends the window whichever thread calls it.
DestroyWindow_any_thread(t) ==
    /\ pc[t] = "DestroyWindow"
    /\ drain[t] # << >>
    /\ LET hwnd == Head(drain[t]) IN
        /\ live' = live \ {hwnd}
        /\ affinity' = affinity \ {hwnd}
        /\ clickThrough' = clickThrough \ {hwnd}
        /\ useAfterDestroy' = NativeUse(hwnd)
    /\ drain' = [drain EXCEPT ![t] = Tail(@)]
    /\ call' = [call EXCEPT ![cid[t]].native = @ + 1, ![cid[t]].destroys = @ + 1]
    /\ UNCHANGED <<platform, overlays, ns_windows, mutex, creator, nextHandle,
                   pc, cid, lockLog>>

\* The loop body: unsafe { DestroyWindow(hwnd); } for the next drained handle.
\* A thread cannot destroy a window another thread created: the call then
\* fails and the window stays; the code drops the Result either way.
DestroyWindow(t) ==
    /\ pc[t] = "DestroyWindow"
    /\ drain[t] # << >>
    /\ LET hwnd == Head(drain[t]) IN
        /\ IF creator[hwnd] = t
           THEN /\ live' = live \ {hwnd}
                /\ affinity' = affinity \ {hwnd}
                /\ clickThrough' = clickThrough \ {hwnd}
                /\ call' = [call EXCEPT ![cid[t]].native = @ + 1,
                                        ![cid[t]].destroys = @ + 1]
           ELSE /\ call' = [call EXCEPT ![cid[t]].native = @ + 1,
                                        ![cid[t]].destroys = @ + 1,
                                        ![cid[t]].denied = @ + 1]
                /\ UNCHANGED <<live, affinity, clickThrough>>
        /\ useAfterDestroy' = NativeUse(hwnd)
    /\ drain' = [drain EXCEPT ![t] = Tail(@)]
    /\ UNCHANGED <<platform, overlays, ns_windows, mutex, creator, nextHandle,
                   pc, cid, lockLog>>

\* The loop is over: the drain and the guard are dropped, the Mutex is free.
destroy_all_unlock(t) ==
    /\ pc[t] = "DestroyWindow"
    /\ drain[t] = << >>
    /\ mutex' = 0
    /\ pc' = [pc EXCEPT ![t] = "destroy_ret"]
    /\ UNCHANGED <<platform, overlays, ns_windows, live, affinity, clickThrough,
                   creator, nextHandle, cid, drain, call, lockLog, useAfterDestroy>>

\* OverlayManager::destroy_all (macos): self.ns_windows.lock().unwrap().clear().
\* The vector is emptied; no message is sent to the NSWindow objects.
mac_destroy_all(t) ==
    /\ pc[t] = "mac_destroy_all"
    /\ mutex = 0
    /\ ns_windows' = << >>
    /\ lockLog' = Append(lockLog, cid[t])
    /\ call' = [call EXCEPT ![cid[t]].taken = Len(ns_windows)]
    /\ pc' = [pc EXCEPT ![t] = "destroy_ret"]
    /\ UNCHANGED <<platform, overlays, mutex, live, affinity, clickThrough,
                   creator, nextHandle, cid, drain, useAfterDestroy>>

\* A buggy tail: destroying nothing is reported as an error.
destroy_ret_strict(t) ==
    /\ pc[t] = "destroy_ret"
    /\ call' = [call EXCEPT ![cid[t]].ret =
                   IF Cur(t).taken = 0 THEN "Err" ELSE "Ok"]
    /\ pc' = [pc EXCEPT ![t] = "idle"]
    /\ UNCHANGED <<platform, overlays, ns_windows, mutex, live, affinity,
                   clickThrough, creator, nextHandle, cid, drain, lockLog,
                   useAfterDestroy>>

\* destroy_privacy_overlay's tail on every build: Ok(()).
destroy_ret(t) ==
    /\ pc[t] = "destroy_ret"
    /\ call' = [call EXCEPT ![cid[t]].ret = "Ok"]
    /\ pc' = [pc EXCEPT ![t] = "idle"]
    /\ UNCHANGED <<platform, overlays, ns_windows, mutex, live, affinity,
                   clickThrough, creator, nextHandle, cid, drain, lockLog,
                   useAfterDestroy>>

\* The command destroy_privacy_overlay: manager.destroy_all() where the build
\* has one (windows, macos), then Ok(()).
destroy_privacy_overlay(t) ==
    \/ /\ Invoke(t, "destroy",
                 IF platform = "windows" THEN "destroy_all"
                 ELSE IF platform = "macos" THEN "mac_destroy_all"
                 ELSE "destroy_ret")
       /\ UNCHANGED <<platform, overlays, ns_windows, mutex, live, affinity,
                      clickThrough, creator, nextHandle, drain, lockLog,
                      useAfterDestroy>>
    \/ destroy_all_lock(t)
    \/ DestroyWindow(t)
    \/ destroy_all_unlock(t)
    \/ mac_destroy_all(t)
    \/ destroy_ret(t)

OverlayNext ==
    \E t \in Threads : create_privacy_overlay(t) \/ destroy_privacy_overlay(t)

(***************************************************************************)
(* key_event                                                               *)
(*                                                                         *)
(* A key name is the sequence of the code points of the `key` string, so   *)
(* that to_uppercase() and the byte length test can be computed; a         *)
(* physical code and an action are only compared with literals and are     *)
(* strings.  An emitted event is a record: kind "key" with the key (vk),   *)
(* the direction (up) and the extended flag, or kind "text" for            *)
(* key_sequence(text) of the enigo path, whose keys Control, Shift and Alt *)
(* are written with the virtual-key codes of the same keys.                *)
(***************************************************************************)

\* Virtual-key codes of windows::Win32::UI::Input::KeyboardAndMouse.
VK_BACK == 8
VK_TAB == 9
VK_RETURN == 13
VK_SHIFT == 16
VK_CONTROL == 17
VK_MENU == 18
VK_ESCAPE == 27
VK_SPACE == 32
VK_PRIOR == 33
VK_NEXT == 34
VK_END == 35
VK_HOME == 36
VK_LEFT == 37
VK_UP == 38
VK_RIGHT == 39
VK_DOWN == 40
VK_INSERT == 45
VK_DELETE == 46
VK_NUMPAD0 == 96
VK_MULTIPLY == 106
VK_ADD == 107
VK_SUBTRACT == 109
VK_DECIMAL == 110
VK_DIVIDE == 111

\* The physical codes vk_from_keycode has an arm for, with (virtual key, extended).
CodeTable ==
    [ArrowLeft |-> <<VK_LEFT, TRUE>>, ArrowRight |-> <<VK_RIGHT, TRUE>>,
     ArrowUp |-> <<VK_UP, TRUE>>, ArrowDown |-> <<VK_DOWN, TRUE>>,
     Home |-> <<VK_HOME, TRUE>>, End |-> <<VK_END, TRUE>>,
     PageUp |-> <<VK_PRIOR, TRUE>>, PageDown |-> <<VK_NEXT, TRUE>>,
     Insert |-> <<VK_INSERT, TRUE>>, Delete |-> <<VK_DELETE, TRUE>>,
     Backspace |-> <<VK_BACK, FALSE>>, Enter |-> <<VK_RETURN, FALSE>>,
     NumpadEnter |-> <<VK_RETURN, FALSE>>, Tab |-> <<VK_TAB, FALSE>>,
     Escape |-> <<VK_ESCAPE, FALSE>>, Space |-> <<VK_SPACE, FALSE>>,
     Numpad0 |-> <<VK_NUMPAD0, FALSE>>, Numpad1 |-> <<VK_NUMPAD0 + 1, FALSE>>,
     Numpad2 |-> <<VK_NUMPAD0 + 2, FALSE>>, Numpad3 |-> <<VK_NUMPAD0 + 3, FALSE>>,
     Numpad4 |-> <<VK_NUMPAD0 + 4, FALSE>>, Numpad5 |-> <<VK_NUMPAD0 + 5, FALSE>>,
     Numpad6 |-> <<VK_NUMPAD0 + 6, FALSE>>, Numpad7 |-> <<VK_NUMPAD0 + 7, FALSE>>,
     Numpad8 |-> <<VK_NUMPAD0 + 8, FALSE>>, Numpad9 |-> <<VK_NUMPAD0 + 9, FALSE>>,
     NumpadAdd |-> <<VK_ADD, FALSE>>, NumpadSubtract |-> <<VK_SUBTRACT, FALSE>>,
     NumpadMultiply |-> <<VK_MULTIPLY, FALSE>>, NumpadDivide |-> <<VK_DIVIDE, TRUE>>,
     NumpadDecimal |-> <<VK_DECIMAL, FALSE>>]

MappedCodes == DOMAIN CodeTable

\* The key names the name arms of vk_from_keycode match, as code points.
KeyControl == <<67, 111, 110, 116, 114, 111, 108>>
KeyShift == <<83, 104, 105, 102, 116>>
KeyAlt == <<65, 108, 116>>

\* char::to_uppercase for the code points below 256, and for the two above
\* whose upper case is an ASCII letter: dotless i (U+0131) gives I and long s
\* (U+017F) gives S.  The upper case of every other code point above 255
\* has more than one byte, as the code point itself has.
UpperChar(c) ==
    IF c >= 97 /\ c <= 122 THEN <<c - 32>>
    ELSE IF c = 305 THEN <<73>>
    ELSE IF c = 383 THEN <<83>>
    ELSE IF c = 181 THEN <<924>>
    ELSE IF c = 223 THEN <<83, 83>>
    ELSE IF c = 255 THEN <<376>>
    ELSE IF c >= 224 /\ c <= 254 /\ c # 247 THEN <<c - 32>>
    ELSE <<c>>

\* str::to_uppercase: the upper case of each character, in order.
RECURSIVE to_uppercase(_)
to_uppercase(key) ==
    IF key = << >> THEN << >>
    ELSE UpperChar(Head(key)) \o to_uppercase(Tail(key))

\* Bytes of one code point in UTF-8.
Utf8Len(c) == IF c < 128 THEN 1 ELSE IF c < 2048 THEN 2 ELSE IF c < 65536 THEN 3 ELSE 4

\* String::len(): the length in bytes.
RECURSIVE ByteLen(_)
ByteLen(str) == IF str = << >> THEN 0 ELSE Utf8Len(Head(str)) + ByteLen(Tail(str))

\* A buggy vk_from_keycode: the key name is matched before the physical code.
vk_from_keycode_name_first(key, code) ==
    IF key = KeyControl THEN <<VK_CONTROL, TRUE>>
    ELSE IF key = KeyShift THEN <<VK_SHIFT, FALSE>>
    ELSE IF key = KeyAlt THEN <<VK_MENU, TRUE>>
    ELSE IF ByteLen(to_uppercase(key)) = 1
         THEN <<Head(to_uppercase(key)) % 65536, FALSE>>
    ELSE IF code \in MappedCodes THEN CodeTable[code]
    ELSE <<0, FALSE>>

\* vk_from_keycode(key, code) -> (VIRTUAL_KEY, is_extended): the physical code
\* first; else Control / Shift / Alt; else the one-byte upper case of the key
\* as a u16; else (VIRTUAL_KEY(0), false).
vk_from_keycode(key, code) ==
    IF code \in MappedCodes THEN CodeTable[code]
    ELSE IF key = KeyControl THEN <<VK_CONTROL, TRUE>>
    ELSE IF key = KeyShift THEN <<VK_SHIFT, FALSE>>
    ELSE IF key = KeyAlt THEN <<VK_MENU, TRUE>>
    ELSE LET upper == to_uppercase(key) IN
         IF ByteLen(upper) = 1 THEN <<Head(upper) % 65536, FALSE>>
         ELSE <<0, FALSE>>

\* The closure push_key(vk, up, extended): the INPUT it pushes.
push_key(vk, up, extended) ==
    [kind |-> "key", vk |-> vk, up |-> up, ext |-> extended, text |-> << >>]

\* enigo.key(Key::.., KeyDirection::Press | Release).
enigo_key(vk, up) ==
    [kind |-> "key", vk |-> vk, up |-> up, ext |-> FALSE, text |-> << >>]

\* enigo.key_sequence(&key): the text is typed.
enigo_key_sequence(key) ==
    [kind |-> "text", vk |-> 0, up |-> FALSE, ext |-> FALSE, text |-> key]

\* A buggy modifier prologue: the modifiers are pressed whatever the action.
mods_before_any_action(action, mods) ==
    (IF mods.ctrl THEN <<push_key(VK_CONTROL, FALSE, TRUE)>> ELSE << >>)
    \o (IF mods.shift THEN <<push_key(VK_SHIFT, FALSE, FALSE)>> ELSE << >>)
    \o (IF mods.alt THEN <<push_key(VK_MENU, FALSE, TRUE)>> ELSE << >>)

\* key_event (windows), `if action == "down" { ... }`: ctrl, shift, alt down.
mods_before(action, mods) ==
    IF action = "down"
    THEN (IF mods.ctrl THEN <<push_key(VK_CONTROL, FALSE, TRUE)>> ELSE << >>)
         \o (IF mods.shift THEN <<push_key(VK_SHIFT, FALSE, FALSE)>> ELSE << >>)
         \o (IF mods.alt THEN <<push_key(VK_MENU, FALSE, TRUE)>> ELSE << >>)
    ELSE << >>

\* key_event (windows), `if action == "up" { ... }`: alt, shift, ctrl up.
mods_after(action, mods) ==
    IF action = "up"
    THEN (IF mods.alt THEN <<push_key(VK_MENU, TRUE, TRUE)>> ELSE << >>)
         \o (IF mods.shift THEN <<push_key(VK_SHIFT, TRUE, FALSE)>> ELSE << >>)
         \o (IF mods.ctrl THEN <<push_key(VK_CONTROL, TRUE, TRUE)>> ELSE << >>)
    ELSE << >>

\* key_event (windows): the vector `inputs` when SendInput is reached.
KeyInputs(req) ==
    LET m == vk_from_keycode(req.key, req.code) IN
    mods_before(req.action, req.mods)
    \o (IF m[1] # 0 THEN <<push_key(m[1], req.action = "up", m[2])>> ELSE << >>)
    \o mods_after(req.action, req.mods)

\* key_event (not windows): the enigo calls, in order.  The modifiers are
\* pressed and released whatever the action; the key is typed on "down" only.
EnigoEvents(req) ==
    (IF req.mods.ctrl THEN <<enigo_key(VK_CONTROL, FALSE)>> ELSE << >>)
    \o (IF req.mods.shift THEN <<enigo_key(VK_SHIFT, FALSE)>> ELSE << >>)
    \o (IF req.mods.alt THEN <<enigo_key(VK_MENU, FALSE)>> ELSE << >>)
    \o (IF req.action = "down" THEN <<enigo_key_sequence(req.key)>> ELSE << >>)
    \o (IF req.mods.alt THEN <<enigo_key(VK_MENU, TRUE)>> ELSE << >>)
    \o (IF req.mods.shift THEN <<enigo_key(VK_SHIFT, TRUE)>> ELSE << >>)
    \o (IF req.mods.ctrl THEN <<enigo_key(VK_CONTROL, TRUE)>> ELSE << >>)

\* The requests the model draws: every physical code of the table and one
\* without an arm; key names that resolve by name (a letter, a digit, the
\* three modifiers, the two letters above U+00FF whose upper case is ASCII)
\* and that do not (two characters, a two-byte character).
Actions == {"down", "up", "press"}
Codes == MappedCodes \cup {"KeyA"}
Keys == {<<97>>, <<49>>, KeyControl, KeyShift, KeyAlt, <<70, 53>>, <<233>>,
         <<305>>, <<383>>}
Modifiers == [alt : BOOLEAN, ctrl : BOOLEAN, shift : BOOLEAN, meta : BOOLEAN]
Requests == [action : Actions, key : Keys, code : Codes, mods : Modifiers]

(***************************************************************************)
(* The overlay window procedure (windows build)                            *)
(***************************************************************************)

\* Overlay windows followed through their message handling, and the number
\* of paints counted per window (the count stays at MaxPaints once there).
MaxWindows == 2
MaxPaints == 2
Windows == 1 .. MaxWindows

\* SetTimer(hwnd, 1, 50, None) and KillTimer(hwnd, 1): the timer's id.
TimerId == 1

VARIABLES
    wndState,     \* per window: "none" (not created), "Created" (made and
                  \* shown, create_privacy_overlay still running), "Idle"
                  \* (no handler running), "Painting" (inside WM_PAINT),
                  \* "Destroying" (inside DestroyWindow, WM_DESTROY
                  \* handled), "released"
    timers,       \* per window: the ids of the timers set on it
    due,          \* per window: the timers whose period has elapsed
    updateRgn,    \* per window: the update region is not empty
    erase,        \* per window: the update region is to be erased first
    paints,       \* per window: WM_PAINT handlers completed
    stale         \* windows for which a message was handled after release

pvars == <<wndState, timers, due, updateRgn, erase, paints, stale>>

PaintInit ==
    /\ wndState = [w \in Windows |-> "none"]
    /\ timers = [w \in Windows |-> {}]
    /\ due = [w \in Windows |-> {}]
    /\ updateRgn = [w \in Windows |-> FALSE]
    /\ erase = [w \in Windows |-> FALSE]
    /\ paints = [w \in Windows |-> 0]
    /\ stale = {}

(***************************************************************************)
(* The spinner angle of WM_PAINT                                           *)
(***************************************************************************)

\* The clock WM_PAINT samples, in ms since UNIX_EPOCH, runs up to MaxClockMs
\* at the first of two paints: one full turn of the spinner and a little more.
MaxClockMs == 3700

\* let angle = (now / 10) % 360;
MsPerDegree == 10
FullTurn == 360

\* An angle that is not reduced to one turn.
angle_unwrapped(now) == now \div MsPerDegree

\* now is SystemTime::now().duration_since(UNIX_EPOCH).unwrap().as_millis(),
\* an unsigned integer: the division cuts off the remainder.
angle(now) == (now \div MsPerDegree) % FullTurn

\* The time from one paint's sample of the clock to the next one's, in ms:
\* none, one timer period, half a second, one full turn.
SampleGaps == {0, 50, 500, 3600}

VARIABLES
    angleLog     \* the paints of one window looked at: the clock each one
                 \* sampled and the angle it drew (at most two)

avars == <<angleLog>>

AngleInit == angleLog = << >>

(***************************************************************************)
(* The mouse commands                                                      *)
(***************************************************************************)

\* Largest display dimension GetSystemMetrics reports in the model; the
\* pointer coordinates run from one pixel before the display to one after.
MaxDim == 6
Metrics == 0 .. MaxDim
Coords == -1 .. MaxDim + 1

\* The normalized range of MOUSEEVENTF_ABSOLUTE and the limits of i32.
NormalizedMax == 65535
I32Max == 2147483647
I32Min == -I32Max - 1

\* The quotient n / d for d > 0 cut toward zero, as `as i32` alone would.
round_toward_zero(n, d) ==
    IF n >= 0 THEN n \div d ELSE -((-n) \div d)

\* f64::round of the quotient n / d for d > 0: to the nearest integer, a half
\* away from zero.
round(n, d) ==
    IF n >= 0 THEN (2 * n + d) \div (2 * d)
              ELSE -((2 * (-n) + d) \div (2 * d))

\* ((v as f64 / metric as f64) * 65535.0).round() as i32.  A metric of 0
\* (GetSystemMetrics failed) divides by zero: the quotient is an infinity,
\* which the cast saturates, or NaN for 0.0 / 0.0, which the cast makes 0.
normalize(v, metric) ==
    IF metric = 0
    THEN IF v > 0 THEN I32Max ELSE IF v < 0 THEN I32Min ELSE 0
    ELSE round(v * NormalizedMax, metric)

\* Button strings, as their code points.
BtnLeft == <<108, 101, 102, 116>>
BtnRight == <<114, 105, 103, 104, 116>>
BtnMiddle == <<109, 105, 100, 100, 108, 101>>
BtnUnknown == <<117, 110, 107, 110, 111, 119, 110>>
UpperSpelling(s) == [i \in 1 .. Len(s) |-> s[i] - 32]
CapitalSpelling(s) == [i \in 1 .. Len(s) |-> IF i = 1 THEN s[i] - 32 ELSE s[i]]
Buttons ==
    {BtnLeft, BtnRight, BtnMiddle, BtnUnknown, << >>}
        \cup {UpperSpelling(s) : s \in {BtnLeft, BtnRight, BtnMiddle}}
        \cup {CapitalSpelling(s) : s \in {BtnLeft, BtnRight, BtnMiddle}}

\* match button.as_str() { "right" => right pair, _ => left pair }
button_flags(button) ==
    IF button = BtnRight THEN <<"RIGHTDOWN", "RIGHTUP">>
                         ELSE <<"LEFTDOWN", "LEFTUP">>

\* if button == "right" { MouseButton::Right } else { MouseButton::Left }
enigo_button(button) == IF button = BtnRight THEN "Right" ELSE "Left"

VARIABLES
    mouseLog     \* the last mouse command: its arguments, the events it
                 \* handed to the native subsystem, what SendInput returned
                 \* and the command's result (a sequence of at most one)

mvars == <<mouseLog>>

MouseInit == mouseLog = << >>

VARIABLES
    keyLog,      \* the key_event calls of the current key stroke: request,
                 \* events emitted, result
    batches,     \* SendInput submissions made by the last key_event call
    submitted,   \* events handed to SendInput by the last call
    accepted     \* what SendInput returned to the last call

ivars == <<keyLog, batches, submitted, accepted>>
vars == <<ovars, ivars, mvars, pvars, avars>>

InputInit ==
    /\ keyLog = << >>
    /\ batches = 0
    /\ submitted = 0
    /\ accepted = 0

\* The command key_event(action, key, code, mods), the whole handler.  log is
\* the calls of the key stroke so far.  On windows the events are collected
\* in `inputs` and, when there are any, handed to SendInput once; the call
\* fails only when SendInput returns 0.  Elsewhere each event is an enigo
\* call and the result is Ok(()).
key_event(req, log) ==
    IF platform = "windows"
    THEN LET inputs == KeyInputs(req) IN
         IF inputs = << >>
         THEN /\ keyLog' = Append(log, [req |-> req, events |-> << >>, ret |-> "Ok"])
              /\ batches' = 0
              /\ submitted' = 0
              /\ accepted' = 0
         ELSE \E sent \in 0 .. Len(inputs) :
                /\ keyLog' = Append(log,
                       [req |-> req,
                        events |-> inputs,
                        ret |-> IF sent = 0 THEN "SendInput key_event failed" ELSE "Ok"])
                /\ batches' = 1
                /\ submitted' = Len(inputs)
                /\ accepted' = sent
    ELSE /\ keyLog' = Append(log, [req |-> req, events |-> EnigoEvents(req), ret |-> "Ok"])
         /\ batches' = 0
         /\ submitted' = 0
         /\ accepted' = 0

\* The front end forwards a key stroke: any key_event first, then a second
\* key_event for the same key, code and modifiers (the keyup after the
\* keydown, or a repeat).
KeyStrokeFirst ==
    /\ Len(keyLog) = 0
    /\ \E req \in Requests : key_event(req, << >>)
    /\ UNCHANGED <<ovars, mvars, pvars, avars>>

KeyStrokeSecond ==
    /\ Len(keyLog) = 1
    /\ \E a \in Actions : key_event([keyLog[1].req EXCEPT !.action = a], keyLog)
    /\ UNCHANGED <<ovars, mvars, pvars, avars>>

\* The stroke is over: the next key_event starts a new one.
KeyStrokeEnd ==
    /\ Len(keyLog) = 2
    /\ keyLog' = << >>
    /\ batches' = 0
    /\ submitted' = 0
    /\ accepted' = 0
    /\ UNCHANGED <<ovars, mvars, pvars, avars>>

InputNext == KeyStrokeFirst \/ KeyStrokeSecond \/ KeyStrokeEnd

\* The command mouse_move(x, y), the whole handler.  On windows cx and cy are
\* what GetSystemMetrics(SM_CXSCREEN) and (SM_CYSCREEN) return; one absolute
\* move is handed to SendInput and the call fails only when SendInput
\* returns 0.  Elsewhere enigo moves the pointer to the raw coordinates.
mouse_move(x, y) ==
    /\ IF platform = "windows"
       THEN \E cx \in Metrics, cy \in Metrics, sent \in 0 .. 1 :
              LET nx == normalize(x, cx)
                  ny == normalize(y, cy)
                  inputs == << [kind |-> "mouse", dx |-> nx, dy |-> ny,
                                flags |-> {"MOVE", "ABSOLUTE"}] >>
              IN  mouseLog' = << [op |-> "mouse_move", args |-> <<x, y>>,
                                  metrics |-> <<cx, cy>>, events |-> inputs,
                                  accepted |-> sent,
                                  ret |-> IF sent = 0 THEN "SendInput failed"
                                                      ELSE "Ok"] >>
       ELSE mouseLog' = << [op |-> "mouse_move", args |-> <<x, y>>,
                            metrics |-> << >>,
                            events |-> << [kind |-> "enigo_move_to",
                                           dx |-> x, dy |-> y, flags |-> {}] >>,
                            accepted |-> 0, ret |-> "Ok"] >>
    /\ UNCHANGED <<ovars, ivars, pvars, avars>>

\* The command mouse_click(button), the whole handler.  On windows the down
\* and the up event of the matched button go to SendInput together and the
\* call fails only when SendInput returns 0.  Elsewhere enigo clicks the
\* matched button.
mouse_click(button) ==
    /\ IF platform = "windows"
       THEN \E sent \in 0 .. 2 :
              LET down == button_flags(button)[1]
                  up == button_flags(button)[2]
                  inputs == << [kind |-> "mouse", dx |-> 0, dy |-> 0, flags |-> {down}],
                               [kind |-> "mouse", dx |-> 0, dy |-> 0, flags |-> {up}] >>
              IN  mouseLog' = << [op |-> "mouse_click", args |-> button,
                                  metrics |-> << >>, events |-> inputs,
                                  accepted |-> sent,
                                  ret |-> IF sent = 0 THEN "SendInput failed"
                                                      ELSE "Ok"] >>
       ELSE mouseLog' = << [op |-> "mouse_click", args |-> button,
                            metrics |-> << >>,
                            events |-> << [kind |-> "enigo_click", dx |-> 0, dy |-> 0,
                                           flags |-> {enigo_button(button)}] >>,
                            accepted |-> 0, ret |-> "Ok"] >>
    /\ UNCHANGED <<ovars, ivars, pvars, avars>>

\* The front end invokes one mouse command at a time and takes its result
\* before it invokes the next.
MouseMove ==
    /\ mouseLog = << >>
    /\ \E x \in Coords, y \in Coords : mouse_move(x, y)

MouseClick ==
    /\ mouseLog = << >>
    /\ \E button \in Buttons : mouse_click(button)

MouseReturn ==
    /\ mouseLog # << >>
    /\ mouseLog' = << >>
    /\ UNCHANGED <<ovars, ivars, pvars, avars>>

MouseNext == MouseMove \/ MouseClick \/ MouseReturn

\* create_privacy_overlay on windows, seen from the window: CreateWindowExW
\* with WS_POPUP | WS_VISIBLE makes the window and shows it, which leaves
\* the whole client area in the update region, to be erased.  The command
\* goes on (apply_privacy, make_click_through, add_overlay, where it may
\* wait for the registry lock) on the window's thread, so no message of the
\* window is handled until the command is through.
CreateWindowExW(w) ==
    /\ platform = "windows"
    /\ wndState[w] = "none"
    /\ wndState' = [wndState EXCEPT ![w] = "Created"]
    /\ updateRgn' = [updateRgn EXCEPT ![w] = TRUE]
    /\ erase' = [erase EXCEPT ![w] = TRUE]
    /\ UNCHANGED <<timers, due, paints, stale>>
    /\ UNCHANGED <<ovars, ivars, mvars, avars>>

\* create_privacy_overlay's last call, InvalidateRect(hwnd, None, true), made
\* after add_overlay: the whole client area is put in the update region, to
\* be erased.  The window cannot have been destroyed meanwhile: a
\* DestroyWindow takes effect only from the window's thread, which is here.
InvalidateRect_erase(w) ==
    /\ wndState[w] = "Created"
    /\ wndState' = [wndState EXCEPT ![w] = "Idle"]
    /\ updateRgn' = [updateRgn EXCEPT ![w] = TRUE]
    /\ erase' = [erase EXCEPT ![w] = TRUE]
    /\ UNCHANGED <<timers, due, paints, stale>>
    /\ UNCHANGED <<ovars, ivars, mvars, avars>>

\* wnd_proc, WM_PAINT, from BeginPaint on.  The system sends WM_PAINT to a
\* window whose update region is not empty.  BeginPaint sends WM_ERASEBKGND
\* when the region is to be erased (the WM_ERASEBKGND arm answers 1 and draws
\* nothing) and validates the region; the frame is then drawn off screen.
WM_PAINT_BeginPaint(w) ==
    /\ wndState[w] = "Idle"
    /\ updateRgn[w]
    /\ wndState' = [wndState EXCEPT ![w] = "Painting"]
    /\ updateRgn' = [updateRgn EXCEPT ![w] = FALSE]
    /\ erase' = [erase EXCEPT ![w] = FALSE]
    /\ UNCHANGED <<timers, due, paints, stale>>
    /\ UNCHANGED <<ovars, ivars, mvars, avars>>

\* A WM_PAINT tail that ends the paint and sets no timer.
WM_PAINT_EndPaint_only(w) ==
    /\ wndState[w] = "Painting"
    /\ wndState' = [wndState EXCEPT ![w] = "Idle"]
    /\ paints' = [paints EXCEPT ![w] = IF @ < MaxPaints THEN @ + 1 ELSE @]
    /\ UNCHANGED <<timers, due, updateRgn, erase, stale>>
    /\ UNCHANGED <<ovars, ivars, mvars, avars>>

\* wnd_proc, WM_PAINT, the tail: BitBlt, EndPaint, SetTimer(hwnd, 1, 50, None).
\* Setting a timer that is already set restarts its period.
WM_PAINT_SetTimer(w) ==
    /\ wndState[w] = "Painting"
    /\ wndState' = [wndState EXCEPT ![w] = "Idle"]
    /\ timers' = [timers EXCEPT ![w] = @ \cup {TimerId}]
    /\ due' = [due EXCEPT ![w] = @ \ {TimerId}]
    /\ paints' = [paints EXCEPT ![w] = IF @ < MaxPaints THEN @ + 1 ELSE @]
    /\ UNCHANGED <<updateRgn, erase, stale>>
    /\ UNCHANGED <<ovars, ivars, mvars, avars>>

\* The period of a timer set on w elapses.
TimerElapsed(w) ==
    /\ TimerId \in timers[w] \ due[w]
    /\ due' = [due EXCEPT ![w] = @ \cup {TimerId}]
    /\ UNCHANGED <<wndState, timers, updateRgn, erase, paints, stale>>
    /\ UNCHANGED <<ovars, ivars, mvars, avars>>

\* wnd_proc, WM_TIMER: InvalidateRect(hwnd, None, false).  The message of a
\* due timer is handled when no other handler of the window is running; the
\* timer stays set and its period starts again.  A timer left set on a
\* released window still delivers its message.
WM_TIMER(w) ==
    /\ TimerId \in due[w]
    /\ wndState[w] \in {"Idle", "released"}
    /\ due' = [due EXCEPT ![w] = @ \ {TimerId}]
    /\ IF wndState[w] = "Idle"
       THEN /\ updateRgn' = [updateRgn EXCEPT ![w] = TRUE]
            /\ stale' = stale
       ELSE /\ stale' = stale \cup {w}
            /\ updateRgn' = updateRgn
    /\ UNCHANGED <<wndState, timers, erase, paints>>
    /\ UNCHANGED <<ovars, ivars, mvars, avars>>

\* A WM_DESTROY arm that leaves the timer set.
WM_DESTROY_no_KillTimer(w) ==
    /\ wndState[w] = "Idle"
    /\ wndState' = [wndState EXCEPT ![w] = "Destroying"]
    /\ UNCHANGED <<timers, due, updateRgn, erase, paints, stale>>
    /\ UNCHANGED <<ovars, ivars, mvars, avars>>

\* destroy_all's DestroyWindow(hwnd) called on the window's thread (from
\* another thread the call is refused and the window is left as it is),
\* first half: the system sends WM_DESTROY and wnd_proc answers with
\* KillTimer(hwnd, 1).
WM_DESTROY(w) ==
    /\ wndState[w] = "Idle"
    /\ wndState' = [wndState EXCEPT ![w] = "Destroying"]
    /\ timers' = [timers EXCEPT ![w] = @ \ {TimerId}]
    /\ due' = [due EXCEPT ![w] = @ \ {TimerId}]
    /\ UNCHANGED <<updateRgn, erase, paints, stale>>
    /\ UNCHANGED <<ovars, ivars, mvars, avars>>

\* DestroyWindow(hwnd), second half: the window is gone and its handle is
\* released.  The update region goes with the window; what wnd_proc left set
\* on the handle is not touched.
HandleReleased(w) ==
    /\ wndState[w] = "Destroying"
    /\ wndState' = [wndState EXCEPT ![w] = "released"]
    /\ updateRgn' = [updateRgn EXCEPT ![w] = FALSE]
    /\ erase' = [erase EXCEPT ![w] = FALSE]
    /\ UNCHANGED <<timers, due, paints, stale>>
    /\ UNCHANGED <<ovars, ivars, mvars, avars>>

wnd_proc(w) ==
    \/ WM_PAINT_BeginPaint(w)
    \/ WM_PAINT_SetTimer(w)
    \/ WM_TIMER(w)
    \/ WM_DESTROY(w)

PaintNext ==
    \E w \in Windows :
        \/ CreateWindowExW(w)
        \/ InvalidateRect_erase(w)
        \/ wnd_proc(w)
        \/ TimerElapsed(w)
        \/ HandleReleased(w)

\* wnd_proc, WM_PAINT, the lines that sample the clock and compute the angle
\* of the indicator line.
WM_PAINT_angle(now) ==
    /\ platform = "windows"
    /\ angleLog' = Append(angleLog, [now |-> now, angle |-> angle(now)])
    /\ UNCHANGED <<ovars, ivars, mvars, pvars>>

\* Two paints of a window are looked at: one at any time of the clock, and a
\* later one; then another two.
PaintSampleFirst ==
    /\ Len(angleLog) = 0
    /\ \E now \in 0 .. MaxClockMs : WM_PAINT_angle(now)

PaintSampleSecond ==
    /\ Len(angleLog) = 1
    /\ \E gap \in SampleGaps : WM_PAINT_angle(angleLog[1].now + gap)

PaintSampleEnd ==
    /\ Len(angleLog) = 2
    /\ angleLog' = << >>
    /\ UNCHANGED <<ovars, ivars, mvars, pvars>>

AngleNext == PaintSampleFirst \/ PaintSampleSecond \/ PaintSampleEnd

Init == OverlayInit /\ InputInit /\ MouseInit /\ PaintInit /\ AngleInit

Next == OverlayNext /\ UNCHANGED <<ivars, mvars, pvars, avars>>

Spec == Init /\ [][Next]_vars

SpecInput == Init /\ [][InputNext]_vars

SpecMouse == Init /\ [][MouseNext]_vars

SpecPaint == Init /\ [][PaintNext]_vars

SpecAngle == Init /\ [][AngleNext]_vars

\* The message loop of a window's thread is scheduled fairly: a message that
\* stays pending is handled, a handler that has begun ends, and the period
\* of a set timer elapses.
PaintFairness ==
    \A w \in Windows :
        /\ WF_vars(WM_PAINT_BeginPaint(w))
        /\ WF_vars(WM_PAINT_SetTimer(w))
        /\ WF_vars(WM_TIMER(w))
        /\ WF_vars(TimerElapsed(w))

SpecPaintFair == SpecPaint /\ PaintFairness

(***************************************************************************)
(* Properties of the overlay commands                                      *)
(***************************************************************************)

Idle == \A t \in Threads : pc[t] = "idle"
Supported == platform \in {"windows", "macos"}
Calls == 1 .. Len(call)
Creates == {i \in Calls : call[i].op = "create"}
Destroys == {i \in Calls : call[i].op = "destroy"}
Returned(i) == call[i].ret # "none"

\* Handles that were appended to the registry at some time (null is no handle).
EverRegistered == UNION {Range(call[i].added) : i \in Calls} \ {NULL}

\* The last command invoked is a destroy that has returned, no create was in
\* flight while it ran, and nothing runs now.
DestroyRanLastAlone ==
    /\ Idle
    /\ Len(call) > 0
    /\ call[Len(call)].op = "destroy"
    /\ call[Len(call)].conc \cap Creates = {}

\* C1: on a supported platform, after creates followed by a destroy that ran
\* with no concurrent create, the registry is empty and no window whose handle
\* was in the registry still exists.
C1_DestroyLeavesNoWindow ==
    (Supported /\ DestroyRanLastAlone) =>
        /\ Registry = << >>
        /\ EverRegistered \cap live = {}

\* What the lock order leaves in the registry: the handles appended by the
\* calls that took the lock after the last destroy did, in lock order.
RECURSIVE AfterLastDestroy(_)
AfterLastDestroy(log) ==
    IF log = << >> THEN << >>
    ELSE LET i == log[Len(log)]
             front == SubSeq(log, 1, Len(log) - 1)
         IN  IF call[i].op = "destroy" THEN << >>
             ELSE AfterLastDestroy(front) \o call[i].added

\* C2: with creates only (two or more, in any interleaving) and the native
\* subsystem creating each window, every create returns success and the
\* registry ends holding exactly one handle per call, all distinct.
C2_ConcurrentCreatesAllRegistered ==
    (/\ Supported
     /\ Idle
     /\ Destroys = {}
     /\ \A i \in Calls : ~call[i].refused) =>
        /\ \A i \in Calls : call[i].ret = "Ok" /\ Len(call[i].added) = 1
        /\ Len(Registry) = Len(call)
        /\ Range(Registry) = {call[i].hwnd : i \in Calls}
        /\ Cardinality(Range(Registry)) = Len(call)
        /\ NULL \notin Range(Registry)

\* Two creates ran concurrently and both have returned.
C2_Witness ==
    /\ Supported
    /\ Idle
    /\ Len(call) = 2
    /\ Creates = {1, 2}
    /\ 2 \in call[1].conc
    /\ Len(Registry) = 2

\* C3: the registry is decided by the order in which the calls take its lock:
\* it holds what was appended after the last destroy_all took the lock.  For
\* one create in flight with one destroy: empty when destroy_all locked after
\* the append, exactly the create's handle when the append locked after it.
C3_RegistryFollowsLockOrder ==
    Supported =>
        /\ Registry = AfterLastDestroy(lockLog)
        /\ \A c \in Creates, d \in Destroys :
             (Idle /\ Calls = {c, d} /\ ~call[c].refused) =>
                 /\ lockLog \in {<<c, d>>, <<d, c>>}
                 /\ lockLog = <<c, d>> => Registry = << >>
                 /\ lockLog = <<d, c>> => Registry = <<call[c].hwnd>>

\* A create and a destroy overlapped, the append took the lock last, and the
\* registry ends holding the create's handle.
C3_Witness ==
    /\ Supported
    /\ Idle
    /\ Len(call) = 2
    /\ \E c \in Creates, d \in Destroys :
         /\ d \in call[c].conc
         /\ lockLog = <<d, c>>
         /\ Registry = <<call[c].hwnd>>
         /\ call[c].hwnd # NULL

\* C4: no native call is ever made on a handle whose window has been destroyed.
C4_NoUseAfterDestroy == useAfterDestroy = {}

\* A destroy on another thread has taken a create's handle out of the
\* registry and called DestroyWindow on it, and the create is about to call
\* InvalidateRect on that handle: the window is still there.
C4_Witness ==
    \E t \in Threads, d \in Destroys :
        /\ pc[t] = "InvalidateRect"
        /\ Cur(t).added = <<Cur(t).hwnd>>
        /\ Returned(d)
        /\ call[d].denied >= 1
        /\ call[d].thread # t
        /\ Registry = << >>
        /\ Cur(t).hwnd \in live

\* C5: a create whose window the native subsystem refused returns the error
\* value OverlayCreationFailed (it does not panic) and has appended nothing.
C5_RefusalReturnsError ==
    \A i \in Creates :
        (call[i].refused /\ Returned(i)) =>
            /\ call[i].ret = "OverlayCreationFailed"
            /\ call[i].added = << >>

\* C6: on a supported platform every create that returned success made exactly
\* one native window and one registry entry, and every handle in the registry
\* is a window with capture exclusion and click-through applied.
C6_SuccessfulCreateAddsOneProtectedWindow ==
    Supported =>
        /\ \A i \in Creates :
             call[i].ret = "Ok" =>
                 /\ call[i].made
                 /\ call[i].added = <<call[i].hwnd>>
                 /\ call[i].hwnd # NULL
        /\ \A h \in Range(Registry) : h \in affinity /\ h \in clickThrough

\* C7: every destroy that returned, returned success; one that found the
\* registry empty made no native call at all, and the registry is empty
\* whenever the last call to take its lock was a destroy.
C7_DestroyAlwaysSucceeds ==
    /\ \A i \in Destroys :
         /\ Returned(i) => call[i].ret = "Ok"
         /\ call[i].destroys <= call[i].taken
         /\ call[i].taken = 0 => (call[i].destroys = 0 /\ call[i].native = 0)
    /\ (lockLog # << >> /\ call[lockLog[Len(lockLog)]].op = "destroy") =>
           Registry = << >>

\* A destroy with no create before it has returned success.
C7_Witness ==
    /\ Len(call) >= 1
    /\ call[1].op = "destroy"
    /\ call[1].ret = "Ok"
    /\ call[1].taken = 0
    /\ Registry = << >>

\* C8: on a platform with no overlay implementation a create returns the error
\* UnsupportedPlatform, makes no native call and appends nothing.
C8_UnsupportedPlatformError ==
    platform = "other" =>
        \A i \in Creates :
            Returned(i) =>
                /\ call[i].ret = "UnsupportedPlatform"
                /\ call[i].native = 0
                /\ call[i].added = << >>

(***************************************************************************)
(* Properties of key_event                                                 *)
(***************************************************************************)

\* The key of a request resolves in the mapping table.
Resolves(req) == vk_from_keycode(req.key, req.code)[1] # 0

\* What an event does, without its extended flag: <<kind, key, direction>>.
Stroke(e) == <<e.kind, e.vk, e.up>>
Strokes(evs) == [i \in 1 .. Len(evs) |-> Stroke(evs[i])]

Opt(flag, vk, up) == IF flag THEN << <<"key", vk, up>> >> ELSE << >>

\* The order the protocol prescribes for a call whose key resolves.
PrescribedDown(req) ==
    Opt(req.mods.ctrl, VK_CONTROL, FALSE) \o Opt(req.mods.shift, VK_SHIFT, FALSE)
    \o Opt(req.mods.alt, VK_MENU, FALSE)
    \o << <<"key", vk_from_keycode(req.key, req.code)[1], FALSE>> >>

PrescribedUp(req) ==
    << <<"key", vk_from_keycode(req.key, req.code)[1], TRUE>> >>
    \o Opt(req.mods.alt, VK_MENU, TRUE) \o Opt(req.mods.shift, VK_SHIFT, TRUE)
    \o Opt(req.mods.ctrl, VK_CONTROL, TRUE)

\* evs2 releases, in reverse order, exactly the keys evs1 pressed.
Mirrors(evs1, evs2) ==
    /\ Len(evs1) = Len(evs2)
    /\ \A i \in 1 .. Len(evs1) :
         /\ evs1[i].kind = "key" /\ ~evs1[i].up
         /\ evs2[Len(evs2) + 1 - i] = [evs1[i] EXCEPT !.up = TRUE]

\* C9: in one key_event call whose key resolves the events are, for "down",
\* ctrl, shift, alt down (those active) then the key down, and for "up" the
\* key up then alt, shift, ctrl up; so a down call followed by the up call for
\* the same key and modifiers releases, innermost first, every key pressed.
C9_EventsOrdered ==
    /\ \A i \in 1 .. Len(keyLog) :
         Resolves(keyLog[i].req) =>
             /\ keyLog[i].req.action = "down" =>
                    Strokes(keyLog[i].events) = PrescribedDown(keyLog[i].req)
             /\ keyLog[i].req.action = "up" =>
                    Strokes(keyLog[i].events) = PrescribedUp(keyLog[i].req)
    /\ (/\ Len(keyLog) = 2
        /\ Resolves(keyLog[1].req)
        /\ keyLog[1].req.action = "down"
        /\ keyLog[2].req.action = "up") =>
           Mirrors(keyLog[1].events, keyLog[2].events)

\* Number of flags set among the four of Modifiers, and among the three that
\* key_event reads.
Count(flag) == IF flag THEN 1 ELSE 0
ActiveOfFour(mods) ==
    Count(mods.ctrl) + Count(mods.shift) + Count(mods.alt) + Count(mods.meta)
ActiveOfThree(mods) == Count(mods.ctrl) + Count(mods.shift) + Count(mods.alt)

IsModifierEvent(e, up) ==
    e.kind = "key" /\ e.up = up /\ e.vk \in {VK_CONTROL, VK_SHIFT, VK_MENU}

\* C10 as stated: for every pair the mapping table resolves (the table of the
\* windows build) and every combination of the four flags, one key_event call
\* emits one primary event plus 2 x (number of active modifiers) events.
C10_Original ==
    platform = "windows" =>
        \A i \in 1 .. Len(keyLog) :
            (Resolves(keyLog[i].req) /\ keyLog[i].ret = "Ok") =>
                Len(keyLog[i].events) = 1 + 2 * ActiveOfFour(keyLog[i].req.mods)

\* C10, amended: on the windows build, for every resolved pair and every
\* combination of the four flags, a call with action down or up emits exactly
\* one primary event (last for down, first for up) plus exactly one event per
\* active flag among ctrl, shift, alt (meta emits none); a call with any other
\* action emits the primary event alone; so it is a down call and the up call
\* for the same key and modifiers that together emit two primary events and
\* 2 x (number of active ctrl/shift/alt flags) modifier events.
C10_EventCount ==
    platform = "windows" =>
        /\ \A i \in 1 .. Len(keyLog) :
             LET req == keyLog[i].req
                 evs == keyLog[i].events
                 m == vk_from_keycode(req.key, req.code)
                 n == ActiveOfThree(req.mods)
                 up == req.action = "up"
                 primary == [kind |-> "key", vk |-> m[1], up |-> up,
                             ext |-> m[2], text |-> << >>]
             IN  Resolves(req) =>
                    IF req.action \in {"down", "up"}
                    THEN /\ Len(evs) = 1 + n
                         /\ evs[IF up THEN 1 ELSE Len(evs)] = primary
                         /\ \A j \in 1 .. Len(evs) :
                              j # (IF up THEN 1 ELSE Len(evs)) =>
                                  IsModifierEvent(evs[j], up)
                    ELSE evs = <<primary>>
        /\ (/\ Len(keyLog) = 2
            /\ Resolves(keyLog[1].req)
            /\ keyLog[1].req.action = "down"
            /\ keyLog[2].req.action = "up") =>
               Len(keyLog[1].events) + Len(keyLog[2].events)
                   = 2 + 2 * ActiveOfThree(keyLog[1].req.mods)

\* On windows, Ctrl+Alt+Meta+ArrowLeft went down and then up: three events each.
C10_Witness ==
    /\ platform = "windows"
    /\ Len(keyLog) = 2
    /\ keyLog[1].req.action = "down"
    /\ keyLog[2].req.action = "up"
    /\ keyLog[1].req.code = "ArrowLeft"
    /\ keyLog[1].req.mods = [alt |-> TRUE, ctrl |-> TRUE, shift |-> FALSE, meta |-> TRUE]
    /\ Len(keyLog[1].events) = 3
    /\ Len(keyLog[2].events) = 3

\* C11: when neither the physical code nor the key name resolves in the key
\* map (the map of the windows build), a key_event call emits no native event
\* at all, whatever the action and the modifiers, and returns success.
C11_UnresolvedKeyEmitsNothing ==
    platform = "windows" =>
        \A i \in 1 .. Len(keyLog) :
            ~Resolves(keyLog[i].req) =>
                /\ keyLog[i].events = << >>
                /\ keyLog[i].ret = "Ok"

\* C12: the events of one key_event call go to the native subsystem as one
\* batch, and the call fails whenever fewer events were accepted than were
\* submitted, a partial count included.
C12_PartialBatchFails ==
    (platform = "windows" /\ keyLog # << >>) =>
        /\ batches <= 1
        /\ submitted = Len(keyLog[Len(keyLog)].events)
        /\ accepted < submitted => keyLog[Len(keyLog)].ret # "Ok"

(***************************************************************************)
(* Properties of the mouse commands                                        *)
(***************************************************************************)

to_lowercase(s) ==
    [i \in 1 .. Len(s) |-> IF s[i] \in 65 .. 90 THEN s[i] + 32 ELSE s[i]]

Recognized == {BtnLeft, BtnRight, BtnMiddle}

Clicks == {i \in 1 .. Len(mouseLog) : mouseLog[i].op = "mouse_click"}

\* What the build hands to the native subsystem for mouse_click(button).
ClickEvents(button) ==
    IF platform = "windows"
    THEN << [kind |-> "mouse", dx |-> 0, dy |-> 0, flags |-> {button_flags(button)[1]}],
            [kind |-> "mouse", dx |-> 0, dy |-> 0, flags |-> {button_flags(button)[2]}] >>
    ELSE << [kind |-> "enigo_click", dx |-> 0, dy |-> 0,
             flags |-> {enigo_button(button)}] >>

\* C13: mouse_click with a button string that is none of left, right, middle
\* in any letter case fails with UnknownButton and emits no native mouse
\* event.
C13_UnknownButtonRejected ==
    \A i \in Clicks :
        to_lowercase(mouseLog[i].args) \notin Recognized =>
            /\ mouseLog[i].ret = "UnknownButton"
            /\ mouseLog[i].events = << >>

\* C14: mouse_click is case-insensitive: for every letter-case variant of a
\* recognized button name the call emits the event pair that the lowercase
\* name emits, and succeeds when the native subsystem takes the events.
C14_ClickCaseInsensitive ==
    \A i \in Clicks :
        to_lowercase(mouseLog[i].args) \in Recognized =>
            /\ mouseLog[i].events = ClickEvents(to_lowercase(mouseLog[i].args))
            /\ (platform = "windows" /\ mouseLog[i].accepted = 0)
                   \/ mouseLog[i].ret = "Ok"

\* The mouse_move calls on the coordinate-rescaling platform (windows) for
\* which the display has a width and a height.
RescaledMoves ==
    {i \in 1 .. Len(mouseLog) :
        /\ platform = "windows"
        /\ mouseLog[i].op = "mouse_move"
        /\ mouseLog[i].metrics[1] > 0
        /\ mouseLog[i].metrics[2] > 0}

Abs(n) == IF n >= 0 THEN n ELSE -n

\* r is round((v / dim) * 65535): the integer nearest to v * 65535 / dim, the
\* one away from zero when two are equally near.
IsRounded(r, v, dim) ==
    /\ 2 * Abs(r * dim - v * NormalizedMax) <= dim
    /\ 2 * Abs(r * dim - v * NormalizedMax) = dim
           => Abs(r) * dim > Abs(v) * NormalizedMax

\* C15: on the coordinate-rescaling platform mouse_move(x, y) submits one
\* move whose coordinates are round((x / display_width) * 65535) and
\* round((y / display_height) * 65535): 0 for a coordinate of 0, and 65535
\* for a coordinate equal to the display dimension.
C15_MoveRescaled ==
    \A i \in RescaledMoves :
        LET m == mouseLog[i] IN
        /\ Len(m.events) = 1
        /\ IsRounded(m.events[1].dx, m.args[1], m.metrics[1])
        /\ IsRounded(m.events[1].dy, m.args[2], m.metrics[2])
        /\ m.args[1] = 0 => m.events[1].dx = 0
        /\ m.args[2] = 0 => m.events[1].dy = 0
        /\ m.args[1] = m.metrics[1] => m.events[1].dx = NormalizedMax
        /\ m.args[2] = m.metrics[2] => m.events[1].dy = NormalizedMax

\* A move to the far corner of the display was submitted as (65535, 65535).
C15_Witness ==
    \E i \in RescaledMoves :
        /\ mouseLog[i].args = mouseLog[i].metrics
        /\ mouseLog[i].events[1].dx = NormalizedMax
        /\ mouseLog[i].events[1].dy = NormalizedMax
        /\ mouseLog[i].ret = "Ok"

(***************************************************************************)
(* Further properties of the overlay registry                              *)
(***************************************************************************)

\* Thread t is about to make the native destroy call for a handle it took
\* out of the registry.
Destroying(t) == pc[t] = "DestroyWindow" /\ drain[t] # << >>

\* C16: destroy_all holds the registry lock only while it takes and truncates
\* the registry: each native destroy call is made with the lock released, so
\* a create that is about to append is never kept waiting by one.
C16_DestroyOutsideLock ==
    \A t \in Threads :
        Destroying(t) =>
            /\ mutex # t
            /\ \A u \in Threads : pc[u] = "add_overlay" => ENABLED add_overlay(u)

\* C17: under any interleaving of creates and destroys, every entry of the
\* registry is the handle of a live native window and no window is entered
\* twice.
C17_RegistryEntriesLive ==
    \A i \in 1 .. Len(Registry) :
        /\ Registry[i] \in live
        /\ \A j \in 1 .. Len(Registry) : Registry[j] = Registry[i] => j = i

\* C18: the native destroy call for a handle is made by the thread that
\* created that handle, never by another thread.
C18_DestroyOnCreatorThread ==
    \A t \in Threads :
        Destroying(t) => creator[Head(drain[t])] = t

(***************************************************************************)
(* Properties of the overlay window procedure                              *)
(***************************************************************************)

Destroyed(w) == wndState[w] \in {"Destroying", "released"}

\* C19: when a window is destroyed its redraw timer is cancelled before the
\* handle is released (no timer is set on a window whose WM_DESTROY has been
\* handled), and no timer message is handled for a window after its release.
C19_TimerKilledBeforeRelease ==
    \A w \in Windows :
        /\ Destroyed(w) => timers[w] = {} /\ due[w] = {}
        /\ w \notin stale

\* A window that has painted, and so had its timer set, has been released.
C19_Witness ==
    \E w \in Windows : wndState[w] = "released" /\ paints[w] >= 1

\* C20: while an overlay window is live its redraw loops Idle -> Painting ->
\* Idle: every paint that ends leaves the timer set with a fresh period,
\* every timer message handled leaves a paint pending, and with the window's
\* message thread scheduled fairly a due timer and an idle window both lead
\* to Painting again, unless the window is destroyed.
C20_RedrawLoopsForever ==
    /\ [][\A w \in Windows :
            /\ (wndState[w] = "Painting" /\ wndState'[w] = "Idle")
                   => (TimerId \in timers'[w] /\ TimerId \notin due'[w])
            /\ (wndState[w] = "Idle" /\ wndState'[w] = "Idle"
                     /\ TimerId \in due[w] /\ TimerId \notin due'[w])
                   => updateRgn'[w]]_vars
    /\ \A w \in Windows :
            (wndState[w] = "Idle" /\ TimerId \in due[w])
                ~> (wndState[w] = "Painting" \/ Destroyed(w))
    /\ \A w \in Windows :
            (wndState[w] = "Idle") ~> (wndState[w] = "Painting" \/ Destroyed(w))

\* A window is inside its third paint or a later one: the loop has gone
\* round.
C20_Witness ==
    \E w \in Windows : wndState[w] = "Painting" /\ paints[w] >= 2

(***************************************************************************)
(* Properties of the spinner angle                                         *)
(***************************************************************************)

\* C21: the angle computed at each paint is (elapsed ms / 10) mod 360, that
\* is, it lies in 0..359 and some whole number of turns plus the angle is the
\* number of whole 10 ms steps on the sampled clock; and of two paints whose
\* samples are 500 ms apart the later angle is the earlier one advanced by 50
\* degrees modulo 360.
C21_AngleAdvances ==
    /\ \A i \in 1 .. Len(angleLog) :
          /\ angleLog[i].angle \in 0 .. 359
          /\ \E turns \in 0 .. 12 :
                LET steps == angleLog[i].angle + 360 * turns IN
                /\ 10 * steps <= angleLog[i].now
                /\ angleLog[i].now < 10 * (steps + 1)
    /\ (Len(angleLog) = 2 /\ angleLog[2].now = angleLog[1].now + 500)
          => angleLog[2].angle = (angleLog[1].angle + 50) % 360

\* Two paints 500 ms apart, the second past the end of the turn the first
\* was in: the advance by 50 degrees wrapped round.
C21_Witness ==
    /\ Len(angleLog) = 2
    /\ angleLog[2].now = angleLog[1].now + 500
    /\ angleLog[2].angle < angleLog[1].angle
    /\ angleLog[1].now % 10 # 0

(***************************************************************************)
(* Properties of the key resolution                                        *)
(***************************************************************************)

Alphanumeric(c) == c \in (48 .. 57) \cup (65 .. 90) \cup (97 .. 122) \cup {305, 383}
UpperCase(c) ==
    IF c \in 97 .. 122 THEN c - 32
    ELSE IF c = 305 THEN 73 ELSE IF c = 383 THEN 83 ELSE c

\* m is what the key map is said to give for (key, code): the entry of the
\* code where there is one, whatever the key; else the modifier code for
\* Control, Shift, Alt; else, for a one-character alphanumeric key, the code
\* of its upper case, not extended.
ResolvedAsStated(key, code, m) ==
    IF code \in MappedCodes THEN m = CodeTable[code]
    ELSE IF key = KeyControl THEN m[1] = VK_CONTROL
    ELSE IF key = KeyShift THEN m[1] = VK_SHIFT
    ELSE IF key = KeyAlt THEN m[1] = VK_MENU
    ELSE IF Len(key) = 1 /\ Alphanumeric(key[1]) THEN m = <<UpperCase(key[1]), FALSE>>
    ELSE TRUE

\* Where the primary event stands among the events of a windows call: after
\* the modifiers pressed by a "down", first otherwise.
PrimaryIndex(req) ==
    IF req.action = "down" THEN ActiveOfThree(req.mods) + 1 ELSE 1

\* C22: the physical code is tried first and the key name only when the code
\* has no entry; Control, Shift, Alt and one-character alphanumeric names
\* resolve by name; and the primary event of the call carries the resolved
\* code, tagged extended exactly when the map says so.
C22_CodeFirstThenName ==
    platform = "windows" =>
        \A i \in 1 .. Len(keyLog) :
            LET req == keyLog[i].req
                m == vk_from_keycode(req.key, req.code)
                evs == keyLog[i].events
            IN  /\ ResolvedAsStated(req.key, req.code, m)
                /\ Resolves(req) =>
                     /\ Len(evs) >= PrimaryIndex(req)
                     /\ evs[PrimaryIndex(req)].kind = "key"
                     /\ evs[PrimaryIndex(req)].vk = m[1]
                     /\ evs[PrimaryIndex(req)].ext = m[2]

\* A call whose key name is a letter and whose code has an extended entry:
\* the primary event, after a pressed modifier, is the entry's, not the
\* letter's.
C22_Witness ==
    /\ platform = "windows"
    /\ \E i \in 1 .. Len(keyLog) :
          LET req == keyLog[i].req IN
          /\ req.key = <<97>>
          /\ req.code \in MappedCodes
          /\ req.action = "down"
          /\ ActiveOfThree(req.mods) >= 1
          /\ keyLog[i].events[PrimaryIndex(req)].vk = CodeTable[req.code][1]
          /\ keyLog[i].events[PrimaryIndex(req)].ext

(***************************************************************************)
(* No orphaned overlay window                                              *)
(***************************************************************************)

InRegistry(h) == \E i \in 1 .. Len(Registry) : Registry[i] = h

\* Window h was made by a create call that has not appended it yet.
AwaitingAppend(h) ==
    \E i \in Creates :
        call[i].made /\ call[i].hwnd = h /\ call[i].added = << >> /\ ~Returned(i)

\* Window h was taken out of the registry by a destroy_all that has not made
\* the native destroy call for it yet.
AwaitingDestroy(h) ==
    \E t \in Threads : \E k \in 1 .. Len(drain[t]) : drain[t][k] = h

\* C23: no overlay window is orphaned: every live native overlay window is in
\* the registry or belongs to a create call that has not appended it yet
\* (or is held by a destroy_all about to destroy it); so once all calls have
\* completed every live overlay window is in the registry.
C23_NoOrphanedWindow ==
    \A h \in live : InRegistry(h) \/ AwaitingAppend(h) \/ AwaitingDestroy(h)

=============================================================================
